---- MODULE Spec2Model ----
(***************************************************************************)
(* A model of openai_tester.py: the five probes of OpenAITester, the       *)
(* streaming classifier inside test_stream_mode, select_model, and the     *)
(* session loop run_loop_mode.  Three specifications: SpecProbe (a probe    *)
(* called on its own), Spec (a loop-mode session), SpecSelect              *)
(* (select_model at its prompt).                                           *)
(*                                                                         *)
(* Python values are modelled as tagged records [t, v]: a dict is          *)
(* Obj(record), a list Arr(sequence), a str Str(sequence of characters),   *)
(* a number Num(n), None is Null.  An expression that raises evaluates to  *)
(* Raise(name) and every operator propagates it, as Python unwinds to the  *)
(* enclosing try.  Console output (rich) is not modelled; response_time    *)
(* is a wall-clock measurement no decision reads and is left out.          *)
(***************************************************************************)
EXTENDS Integers, Sequences, FiniteSets, TLC

\* ------------------------------------------------------------- bounds
\* Lines of one streaming response that the model lets arrive.
MaxLines == 3
\* Model passes of one loop-mode session.
MaxPasses == 2

\* ------------------------------------------------------ Python values
Obj(r) == [t |-> "obj", v |-> r]
Arr(s) == [t |-> "arr", v |-> s]
Str(s) == [t |-> "str", v |-> s]
Num(n) == [t |-> "num", v |-> n]
Null == [t |-> "null", v |-> 0]
\* A response body that is not JSON: response.json() / json.loads raise on it.
BadJSON == [t |-> "invalid", v |-> 0]
Raise(name) == [t |-> "raise", v |-> name]
IsRaise(x) == x.t = "raise"

EmptyObj == Obj(<<>>)
EmptyStr == Str(<<>>)
EmptyArr == Arr(<<>>)
\* The error field of a result record: None, or a message.
None == "None"

\* bool(x)
Truthy(x) ==
  CASE x.t = "null" -> FALSE
    [] x.t = "num" -> x.v /= 0
    [] x.t = "str" -> Len(x.v) > 0
    [] x.t = "arr" -> Len(x.v) > 0
    [] x.t = "obj" -> DOMAIN x.v /= {}
    [] OTHER -> TRUE

\* response.json(), json.loads(text)
JsonLoads(body) == IF body.t = "invalid" THEN Raise("JSONDecodeError") ELSE body

\* d.get(k, default): only a dict has .get
PyGet(d, k, default) ==
  IF IsRaise(d) THEN d
  ELSE IF d.t = "obj"
       THEN (IF k \in DOMAIN d.v THEN d.v[k] ELSE default)
       ELSE Raise("AttributeError")

\* x[0]
PyIndex0(x) ==
  IF IsRaise(x) THEN x
  ELSE CASE x.t = "arr" -> IF Len(x.v) = 0 THEN Raise("IndexError") ELSE x.v[1]
         [] x.t = "str" -> IF Len(x.v) = 0 THEN Raise("IndexError") ELSE Str(<<x.v[1]>>)
         [] x.t = "obj" -> Raise("KeyError")
         [] OTHER -> Raise("TypeError")

\* len(x)
PyLen(x) ==
  IF IsRaise(x) THEN x
  ELSE CASE x.t \in {"arr", "str"} -> Num(Len(x.v))
         [] x.t = "obj" -> Num(Cardinality(DOMAIN x.v))
         [] OTHER -> Raise("TypeError")

\* str.lower() on the letters the model uses
UpperAlphabet == <<"A","B","C","D","E","F","G","H","I","J","K","L","M",
                   "N","O","P","Q","R","S","T","U","V","W","X","Y","Z">>
LowerAlphabet == <<"a","b","c","d","e","f","g","h","i","j","k","l","m",
                   "n","o","p","q","r","s","t","u","v","w","x","y","z">>
LowerMap ==
  [c \in {UpperAlphabet[i] : i \in 1..Len(UpperAlphabet)} |->
     LowerAlphabet[CHOOSE i \in 1..Len(UpperAlphabet) : UpperAlphabet[i] = c]]
LowerChar(c) == IF c \in DOMAIN LowerMap THEN LowerMap[c] ELSE c
Lower(s) == [i \in 1..Len(s) |-> LowerChar(s[i])]

\* sub in s, on character sequences
Contains(sub, s) ==
  \E i \in 0..(Len(s) - Len(sub)) : SubSeq(s, i + 1, i + Len(sub)) = sub

\* m.lower() of a list element: only a str has .lower
PyLower(m) == IF m.t = "str" THEN Str(Lower(m.v)) ELSE Raise("AttributeError")

\* ---------------------------------------------------- HTTP responses
\* What _make_request gives the caller: a response with a status and a body,
\* or an exception of requests (Timeout, ConnectionError, any other).
Http(status, body) == [kind |-> "http", status |-> status, body |-> body]
TransportError(kind) == [kind |-> kind, status |-> 0, body |-> Null]
TransportErrors == {TransportError("timeout"), TransportError("connerr"),
                    TransportError("exc")}

ErrTimeout == "request timed out"
ErrConnection == "connection error"
\* f"HTTP {response.status_code}: {response.text[:200]}", the body text left out
ErrHttp(status) == "HTTP " \o ToString(status)
\* str(e) of a caught exception: its name stands for its message
ErrException(name) == "exception " \o name
ErrNoValidResponse == "no valid response received"

\* A mutant of TransportErrorText: only the timeout clause records its error.
TransportErrorText_TimeoutOnly(resp) ==
  IF resp.kind = "timeout" THEN ErrTimeout ELSE None

\* The except clauses shared by the probes other than the models probe.
TransportErrorText(resp) ==
  IF resp.kind = "timeout" THEN ErrTimeout ELSE ErrException(resp.kind)

\* ------------------------------------------------ the result store
\* self.results.get(key, {}) and r.get(field, default) on a stored record
EmptyDict == <<>>
StoreGet(store, key) == IF key \in DOMAIN store THEN store[key] ELSE EmptyDict
DictGet(r, field, default) == IF field \in DOMAIN r THEN r[field] ELSE default
\* self.results[key] = result
StorePut(store, key, result) ==
  [k \in DOMAIN store \cup {key} |-> IF k = key THEN result ELSE store[k]]

\* --------------------------------------------------- model names
Chars_gpt == <<"g","p","t">>
Chars_embed == <<"e","m","b","e","d">>
DefaultModel == Str(<<"g","p","t","-","3",".","5","-","t","u","r","b","o">>)
DefaultEmbeddingModel ==
  Str(<<"t","e","x","t","-","e","m","b","e","d","d","i","n","g","-","a","d","a","-","0","0","2">>)

\* for m in models: if kw in m.lower(): model = m; break
\* Null when no entry matches; the AttributeError of a non-str entry reached
\* before a match.
RECURSIVE FirstContaining(_, _, _)
FirstContaining(models, kw, i) ==
  IF i > Len(models) THEN Null
  ELSE LET low == PyLower(models[i])
       IN IF IsRaise(low) THEN low
          ELSE IF Contains(kw, low.v) THEN models[i]
          ELSE FirstContaining(models, kw, i + 1)

\* The model a chat, streaming or tool-calling probe uses (the same lines in
\* each): the given one, else the first gpt model, else the first model, else
\* the default.  Raises outside the probe's try when an entry is not a str.
ChooseChatModel(store, model) ==
  IF Truthy(model) THEN model
  ELSE LET models == DictGet(StoreGet(store, "models_list"), "models", <<>>)
       IN IF Len(models) > 0
          THEN LET found == FirstContaining(models, Chars_gpt, 1)
               IN IF IsRaise(found) THEN found
                  ELSE IF Truthy(found) THEN found
                  ELSE models[1]
          ELSE DefaultModel

ChooseEmbeddingModel(store, model) ==
  IF Truthy(model) THEN model
  ELSE LET models == DictGet(StoreGet(store, "models_list"), "models", <<>>)
       IN IF Len(models) > 0
          THEN LET found == FirstContaining(models, Chars_embed, 1)
               IN IF IsRaise(found) THEN found
                  ELSE IF Truthy(found) THEN found
                  ELSE DefaultEmbeddingModel
          ELSE DefaultEmbeddingModel

\* ------------------------------------------------------- models probe
\* [m.get("id", "unknown") for m in models]: iterating a list gives its
\* elements, a str its characters, a dict its keys; None or a number is not
\* iterable.  Only a dict element has .get.
Chars_unknown == <<"u","n","k","n","o","w","n">>
ModelIds(models) ==
  CASE models.t = "arr" ->
         IF \E i \in 1..Len(models.v) : models.v[i].t /= "obj"
         THEN Raise("AttributeError")
         ELSE Arr([i \in 1..Len(models.v) |->
                     PyGet(models.v[i], "id", Str(Chars_unknown))])
    [] models.t = "str" ->
         IF Len(models.v) = 0 THEN EmptyArr ELSE Raise("AttributeError")
    [] models.t = "obj" ->
         IF DOMAIN models.v = {} THEN EmptyArr ELSE Raise("AttributeError")
    [] OTHER -> Raise("TypeError")

test_models_list(resp) ==
  LET result == [success |-> FALSE, models |-> <<>>, error |-> None]
  IN CASE resp.kind = "timeout" -> [result EXCEPT !.error = ErrTimeout]
       [] resp.kind = "connerr" -> [result EXCEPT !.error = ErrConnection]
       [] resp.kind = "http" /\ resp.status = 200 ->
            LET data == JsonLoads(resp.body)
                models == PyGet(data, "data", EmptyArr)
            IN IF IsRaise(models)
               THEN [result EXCEPT !.error = ErrException(models.v)]
               ELSE \* success is set before the ids are extracted
                    LET ids == ModelIds(models)
                    IN IF IsRaise(ids)
                       THEN [result EXCEPT !.success = TRUE,
                                           !.error = ErrException(ids.v)]
                       ELSE [result EXCEPT !.success = TRUE, !.models = ids.v]
       [] resp.kind = "http" -> [result EXCEPT !.error = ErrHttp(resp.status)]
       [] OTHER -> [result EXCEPT !.error = ErrException(resp.kind)]

\* --------------------------------------------------------- chat probe
\* data.get("choices", [{}])[0].get("message", {})
FirstMessage(data) ==
  PyGet(PyIndex0(PyGet(data, "choices", Arr(<<EmptyObj>>))), "message", EmptyObj)

test_chat_completion(model, resp) ==
  LET result == [success |-> FALSE, model_used |-> model, response |-> Null,
                 error |-> None]
  IN CASE resp.kind = "http" /\ resp.status = 200 ->
            LET content == PyGet(FirstMessage(JsonLoads(resp.body)), "content", EmptyStr)
            IN IF IsRaise(content)
               THEN [result EXCEPT !.error = ErrException(content.v)]
               ELSE [result EXCEPT !.success = TRUE, !.response = content]
       [] resp.kind = "http" -> [result EXCEPT !.error = ErrHttp(resp.status)]
       [] OTHER -> [result EXCEPT !.error = TransportErrorText(resp)]

\* A mutant of test_function_calling: the message content is looked at before
\* the tool calls.
test_function_calling_ContentFirst(model, resp) ==
  LET result == [success |-> FALSE, model_used |-> model, tool_called |-> FALSE,
                 tool_name |-> Null, tool_arguments |-> Null, error |-> None]
  IN CASE resp.kind = "http" /\ resp.status = 200 ->
            LET message == FirstMessage(JsonLoads(resp.body))
                content == PyGet(message, "content", EmptyStr)
                tool_calls == PyGet(message, "tool_calls", EmptyArr)
            IN IF IsRaise(content)
               THEN [result EXCEPT !.error = ErrException(content.v)]
               ELSE IF Truthy(content)
               THEN [result EXCEPT !.success = TRUE]
               ELSE IF Truthy(tool_calls)
               THEN LET function == PyGet(PyIndex0(tool_calls), "function", EmptyObj)
                        name == PyGet(function, "name", Null)
                        arguments == PyGet(function, "arguments", Null)
                    IN IF IsRaise(name)
                       THEN [result EXCEPT !.success = TRUE, !.tool_called = TRUE,
                                           !.error = ErrException(name.v)]
                       ELSE [result EXCEPT !.success = TRUE, !.tool_called = TRUE,
                                           !.tool_name = name,
                                           !.tool_arguments = arguments]
               ELSE [result EXCEPT !.error = ErrNoValidResponse]
       [] resp.kind = "http" -> [result EXCEPT !.error = ErrHttp(resp.status)]
       [] OTHER -> [result EXCEPT !.error = TransportErrorText(resp)]

\* ------------------------------------------------- tool-calling probe
test_function_calling(model, resp) ==
  LET result == [success |-> FALSE, model_used |-> model, tool_called |-> FALSE,
                 tool_name |-> Null, tool_arguments |-> Null, error |-> None]
  IN CASE resp.kind = "http" /\ resp.status = 200 ->
            LET message == FirstMessage(JsonLoads(resp.body))
                tool_calls == PyGet(message, "tool_calls", EmptyArr)
            IN IF IsRaise(tool_calls)
               THEN [result EXCEPT !.error = ErrException(tool_calls.v)]
               ELSE IF Truthy(tool_calls)
               THEN \* success and tool_called are set before the first call is read
                    LET function == PyGet(PyIndex0(tool_calls), "function", EmptyObj)
                        name == PyGet(function, "name", Null)
                        arguments == PyGet(function, "arguments", Null)
                    IN IF IsRaise(name)
                       THEN [result EXCEPT !.success = TRUE, !.tool_called = TRUE,
                                           !.error = ErrException(name.v)]
                       ELSE [result EXCEPT !.success = TRUE, !.tool_called = TRUE,
                                           !.tool_name = name,
                                           !.tool_arguments = arguments]
               ELSE LET content == PyGet(message, "content", EmptyStr)
                    IN IF ~Truthy(content)
                       THEN [result EXCEPT !.error = ErrNoValidResponse]
                       ELSE IF content.t \in {"str", "arr"}
                       THEN [result EXCEPT !.success = TRUE]
                       ELSE \* content[:100] at line 467, after success is set
                            [result EXCEPT !.success = TRUE,
                                           !.error = ErrException("TypeError")]
       [] resp.kind = "http" -> [result EXCEPT !.error = ErrHttp(resp.status)]
       [] OTHER -> [result EXCEPT !.error = TransportErrorText(resp)]

\* --------------------------------------------------- embeddings probe
test_embeddings(model, resp) ==
  LET result == [success |-> FALSE, model_used |-> model, dimensions |-> 0,
                 error |-> None]
  IN CASE resp.kind = "http" /\ resp.status = 200 ->
            LET embeddings ==
                  PyGet(PyIndex0(PyGet(JsonLoads(resp.body), "data", Arr(<<EmptyObj>>))),
                        "embedding", EmptyArr)
            IN IF IsRaise(embeddings)
               THEN [result EXCEPT !.error = ErrException(embeddings.v)]
               ELSE \* success is set before len(embeddings)
                    LET n == PyLen(embeddings)
                    IN IF IsRaise(n)
                       THEN [result EXCEPT !.success = TRUE,
                                           !.error = ErrException(n.v)]
                       ELSE [result EXCEPT !.success = TRUE, !.dimensions = n.v]
       [] resp.kind = "http" -> [result EXCEPT !.error = ErrHttp(resp.status)]
       [] OTHER -> [result EXCEPT !.error = TransportErrorText(resp)]

\* ---------------------------------------------------- streaming probe
\* The thresholds of line 295: avg_interval > 0.01 (seconds) and chunk_count >= 3.
\* Times are whole milliseconds since start_time.
AvgIntervalThresholdMs == 10
MinChunksExcellent == 3

\* A line of response.iter_lines().  shape: "blank" (an empty keep-alive line),
\* "data" (starts with "data: "), "bare" (starts with "{"), "event" (starts
\* with "event:"), "other".  payload: what follows "data: ", or the bare line,
\* as the JSON value it parses to, BadJSON when it does not parse, DoneMark
\* when it is [DONE].  carries: the text fragment the server put on the line
\* (empty when none); the probe never reads it.
DoneMark == [t |-> "done", v |-> 0]
Line(shape, payload, carries) ==
  [shape |-> shape, payload |-> payload, carries |-> carries]
\* {"choices": [{"delta": delta}]}
Chunk(delta) == Obj([choices |-> Arr(<<Obj([delta |-> delta])>>)])

\* The locals of test_stream_mode while it reads (lines 213-222), with the
\* time of the last line read and how the for loop stands: "reading", "break"
\* ([DONE] seen), "eof" (the iterator ended), "raise" (an exception left it).
\* non_stream is how the follow-up request went (lines 351-365), "none"
\* while it has not been made.
NewFrame(model) ==
  [model |-> model, chunk_count |-> 0, chunk_times |-> <<>>,
   full_content |-> <<>>, raw_lines_len |-> 0, has_done |-> FALSE,
   first_chunk_time |-> Null, now |-> 0, ctl |-> "reading", exc |-> "",
   non_stream |-> "none"]

\* if content: ... chunk_times.append(...); full_content += content; chunk_count += 1
\* (str += a truthy value that is not a str is a TypeError)
AddFragment(f, content) ==
  IF IsRaise(content) THEN [f EXCEPT !.ctl = "raise", !.exc = content.v]
  ELSE IF ~Truthy(content) THEN f
  ELSE IF content.t /= "str" THEN [f EXCEPT !.ctl = "raise", !.exc = "TypeError"]
  ELSE [f EXCEPT !.first_chunk_time = IF @ = Null THEN Num(f.now) ELSE @,
                 !.chunk_times = Append(@, f.now),
                 !.full_content = @ \o content.v,
                 !.chunk_count = @ + 1]

\* data.get("choices", [{}])[0].get("delta", {}).get("content", "")
DeltaContent(data) ==
  PyGet(PyGet(PyIndex0(PyGet(data, "choices", Arr(<<EmptyObj>>))), "delta", EmptyObj),
        "content", EmptyStr)

\* A mutant of BareContent: the top-level content and completion are not read.
BareContent_DeltaOnly(data) == DeltaContent(data)

\* The content of a bare JSON line: the delta's, else the top-level content,
\* else the top-level completion (lines 260-265).
BareContent(data) ==
  LET c1 == DeltaContent(data)
      c2 == IF IsRaise(c1) \/ Truthy(c1) THEN c1 ELSE PyGet(data, "content", EmptyStr)
  IN IF IsRaise(c2) \/ Truthy(c2) THEN c2 ELSE PyGet(data, "completion", EmptyStr)

\* One turn of the for loop (lines 226-276) on a line that arrives gap ms
\* after the one before.
ProcessLine(f, line, gap) ==
  LET f1 == [f EXCEPT !.now = @ + gap]
      f2 == [f1 EXCEPT !.raw_lines_len = @ + 1]
  IN CASE line.shape = "blank" -> f1
       [] line.shape = "data" ->
            IF line.payload = DoneMark
            THEN [f2 EXCEPT !.has_done = TRUE, !.ctl = "break"]
            ELSE LET data == JsonLoads(line.payload)
                 IN IF IsRaise(data) THEN f2
                    ELSE AddFragment(f2, DeltaContent(data))
       [] line.shape = "bare" ->
            LET data == JsonLoads(line.payload)
            IN IF IsRaise(data) THEN f2
               ELSE AddFragment(f2, BareContent(data))
       [] OTHER -> f2

\* intervals = [chunk_times[i+1] - chunk_times[i] ...]; sum(intervals)
Intervals(chunk_times) ==
  [i \in 1..(Len(chunk_times) - 1) |-> chunk_times[i + 1] - chunk_times[i]]
RECURSIVE SumSeq(_)
SumSeq(s) == IF Len(s) = 0 THEN 0 ELSE s[1] + SumSeq(Tail(s))
\* A mutant of AvgIntervalExceeds: >= in place of >.
AvgIntervalExceeds_AtLeast(intervals) ==
  SumSeq(intervals) >= AvgIntervalThresholdMs * Len(intervals)

\* avg_interval > 0.01, with avg_interval = sum(intervals) / len(intervals):
\* the division is multiplied out, so the comparison is exact.
AvgIntervalExceeds(intervals) ==
  SumSeq(intervals) > AvgIntervalThresholdMs * Len(intervals)

ErrEmptyStream == "empty streaming response (only [DONE])"
ErrNoStreamData == "no valid streaming data received"

\* The result record as it is created (lines 172-182).
NewStreamResult(model) ==
  [success |-> FALSE, model_used |-> model, chunks_received |-> 0,
   full_response |-> <<>>, error |-> None, is_real_stream |-> FALSE,
   first_chunk_time |-> 0, stream_quality |-> "unknown"]

\* A mutant of OnlyDone: only the [DONE] line itself is allowed.
OnlyDone_OneLine(f) == f.has_done /\ f.raw_lines_len <= 1

\* if has_done and len(raw_lines) <= 2  (line 327)
OnlyDone(f) == f.has_done /\ f.raw_lines_len <= 2

\* The verdict after the loop (lines 279-335).
Classify(f) ==
  LET r0 == [NewStreamResult(f.model) EXCEPT
               !.first_chunk_time =
                  IF Truthy(f.first_chunk_time) THEN f.first_chunk_time.v ELSE 0]
      r1 == [r0 EXCEPT !.chunks_received = f.chunk_count,
                       !.full_response = f.full_content]
  IN IF f.chunk_count > 0
     THEN IF Len(f.chunk_times) > 1
          THEN IF AvgIntervalExceeds(Intervals(f.chunk_times))
                  /\ f.chunk_count >= MinChunksExcellent
               THEN [r1 EXCEPT !.is_real_stream = TRUE,
                               !.stream_quality = "excellent", !.success = TRUE]
               ELSE IF f.chunk_count >= 2
               THEN [r1 EXCEPT !.is_real_stream = TRUE,
                               !.stream_quality = "good", !.success = TRUE]
               ELSE [r1 EXCEPT !.stream_quality = "poor", !.success = TRUE]
          ELSE [r1 EXCEPT !.stream_quality = "poor", !.success = TRUE]
     ELSE IF Len(f.full_content) > 0
     THEN [r0 EXCEPT !.success = TRUE, !.chunks_received = 1,
                     !.full_response = f.full_content,
                     !.stream_quality = "non-standard"]
     ELSE IF OnlyDone(f)
          THEN [r0 EXCEPT !.error = ErrEmptyStream,
                          !.stream_quality = "not_supported"]
          ELSE [r0 EXCEPT !.error = ErrNoStreamData]

\* The follow-up non-streaming request is made on the branch of line 322.
NeedsFollowUp(f) == f.chunk_count = 0 /\ Len(f.full_content) = 0

\* What the follow-up request comes to (lines 351-365): "content" or "empty"
\* for a 200 by the content extracted, "http" for another status, "raised"
\* when the request or the extraction raises (caught at line 364).
FollowUpOutcome(resp) ==
  IF resp.kind /= "http" THEN "raised"
  ELSE IF resp.status /= 200 THEN "http"
  ELSE LET content == PyGet(FirstMessage(JsonLoads(resp.body)), "content", EmptyStr)
       IN IF IsRaise(content) THEN "raised"
          ELSE IF Truthy(content) THEN "content"
          ELSE "empty"

\* The record when an exception leaves the try block (lines 371-376): the
\* result as created, with the error.
StreamFailure(model, text) == [NewStreamResult(model) EXCEPT !.error = text]

\* The whole streaming probe on a response given at once: the status line,
\* the lines with their arrival gaps, how the body ends ("eof", or the
\* exception iter_lines raises: "timeout", "exc"), and the response to the
\* follow-up request.
RECURSIVE ReadLines(_, _)
ReadLines(f, lines) ==
  IF f.ctl /= "reading" \/ Len(lines) = 0 THEN f
  ELSE ReadLines(ProcessLine(f, lines[1].line, lines[1].gap), Tail(lines))

test_stream_mode(model, sr) ==
  CASE sr.open.kind = "http" /\ sr.open.status = 200 ->
         LET f == ReadLines(NewFrame(model), sr.lines)
         IN CASE f.ctl = "raise" -> StreamFailure(model, ErrException(f.exc))
              [] f.ctl = "reading" /\ sr.ending /= "eof" ->
                   StreamFailure(model, TransportErrorText(TransportError(sr.ending)))
              [] OTHER -> Classify(f)
    [] sr.open.kind = "http" -> StreamFailure(model, ErrHttp(sr.open.status))
    [] OTHER -> StreamFailure(model, TransportErrorText(sr.open))

\* Whether test_stream_mode makes its second request on that response.
StreamFollowsUp(model, sr) ==
  /\ sr.open.kind = "http" /\ sr.open.status = 200
  /\ LET f == ReadLines(NewFrame(model), sr.lines)
     IN /\ f.ctl /= "raise"
        /\ (f.ctl = "reading" => sr.ending = "eof")
        /\ NeedsFollowUp(f)

\* ------------------------------------------------------- select_model
ChatKeywords == {<<"g","p","t">>, <<"c","l","a","u","d","e">>, <<"l","l","a","m","a">>,
                 <<"q","w","e","n">>, <<"g","l","m">>, <<"c","h","a","t">>}

\* A mutant of ModelClass: the chat keywords are tried before embed.
ModelClass_ChatFirst(m) ==
  LET m_lower == Lower(m.v)
  IN IF \E x \in ChatKeywords : Contains(x, m_lower) THEN "chat"
     ELSE IF Contains(Chars_embed, m_lower) THEN "embed"
     ELSE "other"

\* The class of one id (lines 570-576); m is a str.
ModelClass(m) ==
  LET m_lower == Lower(m.v)
  IN IF Contains(Chars_embed, m_lower) THEN "embed"
     ELSE IF \E x \in ChatKeywords : Contains(x, m_lower) THEN "chat"
     ELSE "other"

\* The entries of a class, in list order.
RECURSIVE OfClass(_, _)
OfClass(models, class) ==
  IF Len(models) = 0 THEN <<>>
  ELSE (IF ModelClass(models[1]) = class THEN <<models[1]>> ELSE <<>>)
       \o OfClass(Tail(models), class)

\* all_models_ordered (lines 579-599)
AllModelsOrdered(models) ==
  OfClass(models, "chat") \o OfClass(models, "embed") \o OfClass(models, "other")

\* str.strip() of the blanks of an input
RECURSIVE StripLeft(_)
StripLeft(s) == IF Len(s) > 0 /\ s[1] = " " THEN StripLeft(Tail(s)) ELSE s
RECURSIVE StripRight(_)
StripRight(s) ==
  IF Len(s) > 0 /\ s[Len(s)] = " " THEN StripRight(SubSeq(s, 1, Len(s) - 1)) ELSE s
Strip(s) == StripRight(StripLeft(s))

\* int(choice): an optional sign and decimal digits; anything else is a ValueError
Digits == <<"0","1","2","3","4","5","6","7","8","9">>
IsDigit(c) == \E i \in 1..Len(Digits) : Digits[i] = c
DigitValue(c) == (CHOOSE i \in 1..Len(Digits) : Digits[i] = c) - 1
RECURSIVE DigitsValue(_)
DigitsValue(s) ==
  IF Len(s) = 0 THEN 0 ELSE 10 * DigitsValue(SubSeq(s, 1, Len(s) - 1)) + DigitValue(s[Len(s)])
ParseInt(s) ==
  LET signed == Len(s) > 0 /\ s[1] \in {"+", "-"}
      body == IF signed THEN Tail(s) ELSE s
  IN IF Len(body) > 0 /\ \A i \in 1..Len(body) : IsDigit(body[i])
     THEN Num(IF signed /\ s[1] = "-" THEN 0 - DigitsValue(body) ELSE DigitsValue(body))
     ELSE Raise("ValueError")

\* matches = [m for m in models if choice.lower() in m.lower()]
RECURSIVE Matches(_, _)
Matches(models, choice) ==
  IF Len(models) = 0 THEN <<>>
  ELSE (IF Contains(Lower(choice), Lower(models[1].v)) THEN <<models[1]>> ELSE <<>>)
       \o Matches(Tail(models), choice)

ExitSentinel == Str(<<"_","_","E","X","I","T","_","_">>)
Reprompt == [t |-> "reprompt", v |-> 0]

\* A mutant of PromptTurn: a name is looked up by substring only, with no test
\* for an exact match first.
PromptTurn_SubstringOnly(models, typed, show_exit_option) ==
  LET choice == Strip(typed)
      chat_models == OfClass(models, "chat")
      all_models_ordered == AllModelsOrdered(models)
  IN IF Len(choice) = 0
     THEN IF Len(chat_models) > 0 THEN chat_models[1]
          ELSE IF Len(all_models_ordered) > 0 THEN all_models_ordered[1]
          ELSE Null
     ELSE LET idx == ParseInt(choice)
          IN IF ~IsRaise(idx)
             THEN IF show_exit_option /\ idx.v = 0 THEN ExitSentinel
                  ELSE IF 0 <= idx.v - 1 /\ idx.v - 1 < Len(all_models_ordered)
                  THEN all_models_ordered[idx.v]
                  ELSE Reprompt
             ELSE LET matches == Matches(models, choice)
                  IN IF Len(matches) = 1 THEN matches[1] ELSE Reprompt

\* One turn of the while loop of select_model (lines 603-647) on the text
\* typed: the value returned, or Reprompt when the loop goes round again.
PromptTurn(models, typed, show_exit_option) ==
  LET choice == Strip(typed)
      chat_models == OfClass(models, "chat")
      all_models_ordered == AllModelsOrdered(models)
  IN IF Len(choice) = 0
     THEN IF Len(chat_models) > 0 THEN chat_models[1]
          ELSE IF Len(all_models_ordered) > 0 THEN all_models_ordered[1]
          ELSE Null
     ELSE LET idx == ParseInt(choice)
          IN IF ~IsRaise(idx)
             THEN IF show_exit_option /\ idx.v = 0 THEN ExitSentinel
                  ELSE IF 0 <= idx.v - 1 /\ idx.v - 1 < Len(all_models_ordered)
                  THEN all_models_ordered[idx.v]
                  ELSE Reprompt
             ELSE IF \E i \in 1..Len(models) : models[i] = Str(choice)
                  THEN Str(choice)
                  ELSE LET matches == Matches(models, choice)
                       IN IF Len(matches) = 1 THEN matches[1] ELSE Reprompt

\* select_model before it prompts (lines 551-599): "none" when the list is
\* empty and None is returned without a prompt, "raise" when an entry is not
\* a str (m.lower() at line 570), else "prompt".
SelectEntry(models) ==
  IF Len(models) = 0 THEN "none"
  ELSE IF \E i \in 1..Len(models) : models[i].t /= "str" THEN "raise"
  ELSE "prompt"

\* --------------------------------------------------- test_single_model
\* A mutant of ResetStore: the tested model is merged into the old store.
ResetStore_Merge(store, model) == StorePut(store, "tested_model", model)

\* self.results = {"models_list": models_list, "tested_model": model}
ResetStore(store, model) ==
  [k \in {"models_list", "tested_model"} |->
     IF k = "models_list" THEN StoreGet(store, "models_list") ELSE model]

\* The entry appended to all_test_history (lines 706-712).
HistoryEntry(store, model) ==
  [model |-> model,
   chat |-> StoreGet(store, "chat_completion"),
   stream |-> StoreGet(store, "stream_mode"),
   tools |-> StoreGet(store, "function_calling"),
   embeddings |-> StoreGet(store, "embeddings")]

\* A mutant of ModelsProbeFailed: the result of the models probe is not looked at.
ModelsProbeFailed_Never(store) == FALSE

\* sum(1 for r in history if r.get(part, {}).get(field))
RECURSIVE CountWhere(_, _, _)
CountWhere(history, part, field) ==
  IF Len(history) = 0 THEN 0
  ELSE (IF DictGet(DictGet(history[1], part, EmptyDict), field, FALSE) THEN 1 ELSE 0)
       + CountWhere(Tail(history), part, field)

\* A mutant of print_final_report: the tool-calling count goes by success.
print_final_report_ToolsBySuccess(history) ==
  [printed |-> TRUE,
   total |-> Len(history),
   chat_pass |-> CountWhere(history, "chat", "success"),
   stream_pass |-> CountWhere(history, "stream", "success"),
   tools_pass |-> CountWhere(history, "tools", "success")]

\* The statistics of _print_final_report (lines 777-786); it is called on a
\* history that is not empty.
print_final_report(history) ==
  [printed |-> TRUE,
   total |-> Len(history),
   chat_pass |-> CountWhere(history, "chat", "success"),
   stream_pass |-> CountWhere(history, "stream", "success"),
   tools_pass |-> CountWhere(history, "tools", "tool_called")]

\* not self.results.get("models_list", {}).get("success")  (line 799)
ModelsProbeFailed(store) ==
  ~DictGet(StoreGet(store, "models_list"), "success", FALSE)

\* ================================================================ state
VARIABLES
  pc,               \* where the program stands
  results,          \* self.results
  all_test_history, \* self.all_test_history
  test_count,       \* test_count of run_loop_mode
  selected_model,   \* selected_model of run_loop_mode
  console_input,    \* the text last read by select_model's prompt, if any
  frame,            \* the locals of a test_stream_mode call that is reading
  sent,             \* the fragments the server has put on the lines read so far
  arrived,          \* how many lines iter_lines has yielded so far, and how
                    \* many of them were not blank
  returned,         \* the probe that returned last, and its result record
  calls,            \* probe invocations so far, per probe
  requests,         \* HTTP requests issued so far, per purpose
  response,         \* what the server answered to the last probe's own request
  report            \* the counts of the final report, once it is printed

vars == <<pc, results, all_test_history, test_count, selected_model,
          console_input, frame, sent, arrived, returned, calls, requests, response,
          report>>

ProbeNames == {"models_list", "chat_completion", "stream_mode",
               "function_calling", "embeddings"}
NoInput == [given |-> FALSE, text |-> <<>>]
NoFrame == NewFrame(Null)
NothingReturned == [probe |-> "none", explicit |-> FALSE, result |-> EmptyDict]
NoResponse == [kind |-> "none", status |-> 0, body |-> Null]
NoReport == [printed |-> FALSE, total |-> 0, chat_pass |-> 0, stream_pass |-> 0,
             tools_pass |-> 0]
Count(counter, key) == [counter EXCEPT ![key] = @ + 1]

\* A tester as __init__ leaves it (lines 42-43).
Fresh ==
  /\ results = EmptyDict
  /\ all_test_history = <<>>
  /\ test_count = 0
  /\ selected_model = Null
  /\ console_input = NoInput
  /\ frame = NoFrame
  /\ sent = <<>>
  /\ arrived = [lines |-> 0, nonblank |-> 0]
  /\ returned = NothingReturned
  /\ calls = [p \in ProbeNames |-> 0]
  /\ requests = [p \in ProbeNames \cup {"followup"} |-> 0]
  /\ response = NoResponse
  /\ report = NoReport

\* ------------------------------------------------ responses of a server
Id_gpt4 == Str(<<"g","p","t","-","4">>)
Id_gpt4o == Str(<<"G","P","T","-","4","o">>)
Id_chat_embed == Str(<<"c","h","a","t","-","e","m","b","e","d">>)
Id_mistral == Str(<<"m","i","s","t","r","a","l">>)
ModelEntry(id) == Obj([id |-> id])
ModelListBody(ids) == Obj([data |-> Arr([i \in 1..Len(ids) |-> ModelEntry(ids[i])])])

Text_hi == Str(<<"h","i">>)
Text_1 == Str(<<"1">>)
Text_2 == Str(<<"2">>)
ChatBody(message) == Obj([choices |-> Arr(<<Obj([message |-> message])>>)])
ToolCall == Obj([function |-> Obj([name |-> Str(<<"g","e","t","_","w","e","a","t","h","e","r">>),
                                   arguments |-> Str(<<"{","}">>)])])

ErrorStatuses == {401, 500}

ModelsBodies ==
  { ModelListBody(<<Id_gpt4, Id_chat_embed>>),
    ModelListBody(<<Id_mistral>>),
    ModelListBody(<<>>),
    ModelListBody(<<Num(7)>>),
    Obj([data |-> Arr(<<Num(1)>>)]),
    Obj([data |-> Null]),
    BadJSON }

ChatBodies ==
  { ChatBody(Obj([content |-> Text_hi])),
    ChatBody(Obj([content |-> EmptyStr])),
    ChatBody(Obj([content |-> Null])),
    ChatBody(EmptyObj),
    ChatBody(Null),
    Obj([choices |-> EmptyArr]),
    EmptyObj,
    Null,
    BadJSON }

ToolsBodies ==
  { ChatBody(Obj([tool_calls |-> Arr(<<ToolCall>>)])),
    ChatBody(Obj([tool_calls |-> Arr(<<ToolCall>>), content |-> Text_hi])),
    ChatBody(Obj([tool_calls |-> Arr(<<EmptyObj>>)])),
    ChatBody(Obj([tool_calls |-> Arr(<<Text_hi>>)])),
    ChatBody(Obj([tool_calls |-> Arr(<<Obj([function |-> Null])>>)])),
    ChatBody(Obj([tool_calls |-> Obj([a |-> Num(1)])])),
    ChatBody(Obj([tool_calls |-> EmptyArr, content |-> Text_hi])),
    ChatBody(Obj([tool_calls |-> Null, content |-> Text_hi])),
    ChatBody(Obj([content |-> Text_hi])),
    ChatBody(Obj([content |-> Num(5)])),
    ChatBody(Obj([content |-> EmptyStr])),
    ChatBody(EmptyObj),
    Obj([choices |-> EmptyArr]),
    BadJSON }

EmbeddingsBodies ==
  { Obj([data |-> Arr(<<Obj([embedding |-> Arr(<<Num(1), Num(2)>>)])>>)]),
    Obj([data |-> Arr(<<Obj([embedding |-> EmptyArr])>>)]),
    Obj([data |-> Arr(<<Obj([embedding |-> Null])>>)]),
    Obj([data |-> Arr(<<Obj([embedding |-> Num(3)])>>)]),
    Obj([data |-> Arr(<<EmptyObj>>)]),
    Obj([data |-> EmptyArr]),
    EmptyObj,
    BadJSON }

Responses(bodies) ==
  {Http(200, b) : b \in bodies} \cup {Http(c, Null) : c \in ErrorStatuses}
    \cup TransportErrors

\* The lines a streaming response is made of.
StreamLines ==
  { Line("data", Chunk(Obj([content |-> Text_1])), <<"1">>),
    Line("data", Chunk(Obj([content |-> EmptyStr])), <<>>),
    Line("data", Chunk(Obj([content |-> Null])), <<>>),
    Line("data", Chunk(EmptyObj), <<>>),
    Line("data", Obj([choices |-> EmptyArr]), <<>>),
    Line("data", Chunk(Obj([content |-> Num(5)])), <<>>),
    Line("data", Num(1), <<>>),
    Line("data", BadJSON, <<>>),
    Line("data", DoneMark, <<>>),
    Line("bare", Chunk(Obj([content |-> Text_2])), <<"2">>),
    Line("bare", Obj([content |-> Text_2]), <<"2">>),
    Line("bare", Obj([completion |-> Text_2]), <<"2">>),
    Line("bare", EmptyObj, <<>>),
    Line("bare", BadJSON, <<>>),
    Line("event", Null, <<>>),
    Line("other", Null, <<>>),
    Line("blank", Null, <<>>) }

\* Milliseconds between the arrivals of two lines.
Gaps == {0, 20}

\* The model argument of a probe: None, or a name.
ExplicitModel == Str(<<"m","1">>)
ModelArgs == {Null, ExplicitModel}

\* ==================================================== the probes, called
\* A caller of the class calls test_models_list at most once and then one
\* other probe, with any model argument, against any server.
ProbeInit == pc = "idle" /\ Fresh

Return(probe, model, result) ==
  /\ results' = StorePut(results, probe, result)
  /\ returned' = [probe |-> probe, explicit |-> Truthy(model), result |-> result]
  /\ pc' = "returned"

\* An exception leaves the probe: nothing is stored, nothing returned.
Escape(probe, model) ==
  /\ returned' = [probe |-> probe, explicit |-> Truthy(model), result |-> EmptyDict]
  /\ pc' = "escaped"
  /\ UNCHANGED <<results, response>>

CallModelsList(resp) ==
  /\ pc = "idle"
  /\ calls["models_list"] = 0
  /\ LET result == test_models_list(resp)
     IN /\ results' = StorePut(results, "models_list", result)
        /\ returned' = [probe |-> "models_list", explicit |-> FALSE, result |-> result]
  /\ calls' = Count(calls, "models_list")
  /\ requests' = Count(requests, "models_list")
  /\ response' = resp
  /\ UNCHANGED <<pc, all_test_history, test_count, selected_model, console_input,
                 frame, sent, arrived, report>>

CallChatCompletion(model, resp) ==
  /\ pc = "idle"
  /\ calls' = Count(calls, "chat_completion")
  /\ LET m == ChooseChatModel(results, model)
     IN IF IsRaise(m)
        THEN Escape("chat_completion", model) /\ UNCHANGED requests
        ELSE /\ Return("chat_completion", model, test_chat_completion(m, resp))
             /\ requests' = Count(requests, "chat_completion")
             /\ response' = resp
  /\ UNCHANGED <<all_test_history, test_count, selected_model, console_input,
                 frame, sent, arrived, report>>

CallFunctionCalling(model, resp) ==
  /\ pc = "idle"
  /\ calls' = Count(calls, "function_calling")
  /\ LET m == ChooseChatModel(results, model)
     IN IF IsRaise(m)
        THEN Escape("function_calling", model) /\ UNCHANGED requests
        ELSE /\ Return("function_calling", model, test_function_calling(m, resp))
             /\ requests' = Count(requests, "function_calling")
             /\ response' = resp
  /\ UNCHANGED <<all_test_history, test_count, selected_model, console_input,
                 frame, sent, arrived, report>>

CallEmbeddings(model, resp) ==
  /\ pc = "idle"
  /\ calls' = Count(calls, "embeddings")
  /\ LET m == ChooseEmbeddingModel(results, model)
     IN IF IsRaise(m)
        THEN Escape("embeddings", model) /\ UNCHANGED requests
        ELSE /\ Return("embeddings", model, test_embeddings(m, resp))
             /\ requests' = Count(requests, "embeddings")
             /\ response' = resp
  /\ UNCHANGED <<all_test_history, test_count, selected_model, console_input,
                 frame, sent, arrived, report>>

\* test_stream_mode up to the status line (lines 172-218).
StreamOpen(model, resp) ==
  /\ pc = "idle"
  /\ calls' = Count(calls, "stream_mode")
  /\ LET m == ChooseChatModel(results, model)
     IN IF IsRaise(m)
        THEN Escape("stream_mode", model) /\ UNCHANGED <<requests, frame>>
        ELSE /\ requests' = Count(requests, "stream_mode")
             /\ response' = resp
             /\ frame' = NewFrame(m)
             /\ IF resp.kind = "http" /\ resp.status = 200
                THEN /\ pc' = "reading"
                     /\ returned' = [probe |-> "stream_mode", explicit |-> Truthy(model),
                                     result |-> EmptyDict]
                     /\ UNCHANGED results
                ELSE Return("stream_mode", model,
                            test_stream_mode(m, [open |-> resp, lines |-> <<>>,
                                                 ending |-> "eof", followup |-> resp]))
  /\ UNCHANGED <<all_test_history, test_count, selected_model, console_input, sent, arrived,
                 report>>

\* After the loop: the verdict, then the return or the follow-up request.
StreamFinish(f) ==
  /\ frame' = f
  /\ IF f.ctl = "raise"
     THEN /\ Return("stream_mode", f.model, StreamFailure(f.model, ErrException(f.exc)))
          /\ UNCHANGED requests
     ELSE IF NeedsFollowUp(f)
     THEN /\ requests' = Count(requests, "followup")
          /\ pc' = "followup"
          /\ UNCHANGED <<results, returned>>
     ELSE /\ Return("stream_mode", f.model, Classify(f))
          /\ UNCHANGED requests

\* The next line arrives.
StreamLine(line, gap) ==
  /\ pc = "reading"
  /\ arrived.lines < MaxLines
  /\ arrived' = [lines |-> arrived.lines + 1,
                 nonblank |-> arrived.nonblank + (IF line.shape = "blank" THEN 0 ELSE 1)]
  /\ LET f == ProcessLine(frame, line, gap)
     IN /\ sent' = IF Len(line.carries) > 0
                   THEN Append(sent, [at |-> f.now, shape |-> line.shape])
                   ELSE sent
        /\ IF f.ctl = "reading"
           THEN /\ frame' = f
                /\ UNCHANGED <<pc, results, returned, requests>>
           ELSE StreamFinish(f)
  /\ UNCHANGED <<all_test_history, test_count, selected_model, console_input, calls,
                 response, report>>

\* The body ends without [DONE].
StreamEnd ==
  /\ pc = "reading"
  /\ StreamFinish([frame EXCEPT !.ctl = "eof"])
  /\ UNCHANGED <<all_test_history, test_count, selected_model, console_input,
                 sent, arrived, calls, response, report>>

\* A mutant of StreamAbort: the fragments read so far are given their verdict.
StreamAbort_KeepsFragments(kind) ==
  /\ pc = "reading"
  /\ frame' = [frame EXCEPT !.ctl = "abort"]
  /\ Return("stream_mode", frame.model,
            [Classify(frame) EXCEPT
               !.error = TransportErrorText(TransportError(kind))])
  /\ UNCHANGED <<all_test_history, test_count, selected_model, console_input,
                 sent, arrived, calls, requests, response, report>>

\* iter_lines raises: a read timeout, or any other exception.
StreamAbort(kind) ==
  /\ pc = "reading"
  /\ frame' = [frame EXCEPT !.ctl = "abort"]
  /\ Return("stream_mode", frame.model,
            StreamFailure(frame.model, TransportErrorText(TransportError(kind))))
  /\ UNCHANGED <<all_test_history, test_count, selected_model, console_input,
                 sent, arrived, calls, requests, response, report>>

\* A mutant of StreamFollowUp: a follow-up that brings content makes the probe
\* a success.
StreamFollowUp_AdoptsVerdict(resp) ==
  /\ pc = "followup"
  /\ frame' = [frame EXCEPT !.non_stream = FollowUpOutcome(resp)]
  /\ Return("stream_mode", frame.model,
            [Classify(frame) EXCEPT !.success = FollowUpOutcome(resp) = "content"])
  /\ UNCHANGED <<all_test_history, test_count, selected_model, console_input,
                 sent, arrived, calls, requests, response, report>>

\* The follow-up request is answered (lines 343-365): its outcome is told on
\* the console and the result record is not written to.
StreamFollowUp(resp) ==
  /\ pc = "followup"
  /\ frame' = [frame EXCEPT !.non_stream = FollowUpOutcome(resp)]
  /\ Return("stream_mode", frame.model, Classify(frame))
  /\ UNCHANGED <<all_test_history, test_count, selected_model, console_input,
                 sent, arrived, calls, requests, response, report>>

ProbeNext ==
  \/ \E resp \in Responses(ModelsBodies) : CallModelsList(resp)
  \/ \E model \in ModelArgs, resp \in Responses(ChatBodies) :
       CallChatCompletion(model, resp)
  \/ \E model \in ModelArgs, resp \in Responses(ToolsBodies) :
       CallFunctionCalling(model, resp)
  \/ \E model \in ModelArgs, resp \in Responses(EmbeddingsBodies) :
       CallEmbeddings(model, resp)
  \/ \E model \in ModelArgs, resp \in Responses({Null}) : StreamOpen(model, resp)
  \/ \E line \in StreamLines, gap \in Gaps : StreamLine(line, gap)
  \/ StreamEnd
  \/ \E kind \in {"timeout", "exc"} : StreamAbort(kind)
  \/ \E resp \in Responses(ChatBodies) : StreamFollowUp(resp)

SpecProbe == ProbeInit /\ [][ProbeNext]_vars

\* ======================================================= run_loop_mode
\* What the server answers and the user types during a session.
LoopModelsResponses ==
  { Http(200, ModelListBody(<<Id_mistral, Id_gpt4>>)),
    Http(200, ModelListBody(<<>>)),
    Http(200, ModelListBody(<<Num(7)>>)),
    Http(200, Obj([data |-> Null])),
    Http(500, Null),
    TransportError("timeout") }
LoopChatResponses ==
  { Http(200, ChatBody(Obj([content |-> Text_hi]))), Http(500, Null) }
LoopToolsResponses ==
  { Http(200, ChatBody(Obj([tool_calls |-> Arr(<<ToolCall>>)]))),
    Http(200, ChatBody(Obj([content |-> Text_hi]))),
    Http(500, Null) }
FragmentLine == Line("data", Chunk(Obj([content |-> Text_1])), <<"1">>)
DoneLine == Line("data", DoneMark, <<>>)
LoopStreamResponses ==
  { [open |-> Http(200, Null),
     lines |-> <<[line |-> FragmentLine, gap |-> 20], [line |-> FragmentLine, gap |-> 20],
                 [line |-> FragmentLine, gap |-> 20], [line |-> DoneLine, gap |-> 0]>>,
     ending |-> "eof", followup |-> Http(200, ChatBody(Obj([content |-> Text_hi])))],
    [open |-> Http(200, Null),
     lines |-> <<[line |-> DoneLine, gap |-> 0]>>,
     ending |-> "eof", followup |-> Http(500, Null)] }
Typed ==
  { <<>>, <<"0">>, <<"1">>, <<"9">>, <<" ","2"," ">>,
    <<"g","p","t","-","4">>, <<"T">>, <<"M","I","S">>, <<"z","z","z">> }

LoopInit == pc = "AwaitingModelList" /\ Fresh

\* self.test_models_list() and the test of its result (lines 796-801).
RunModelsProbe(resp) ==
  /\ pc = "AwaitingModelList"
  /\ results' = StorePut(results, "models_list", test_models_list(resp))
  /\ calls' = Count(calls, "models_list")
  /\ requests' = Count(requests, "models_list")
  /\ pc' = IF ModelsProbeFailed(results') THEN "Done" ELSE "SelectingModel"
  /\ response' = resp
  /\ UNCHANGED <<all_test_history, test_count, selected_model, console_input,
                 frame, sent, arrived, returned, report>>

\* The top of the while loop and select_model up to its prompt (lines 805-813,
\* 551-601).
EnterSelectModel ==
  /\ pc = "SelectingModel"
  /\ test_count' = test_count + 1
  /\ console_input' = NoInput
  /\ LET entry == SelectEntry(DictGet(StoreGet(results, "models_list"), "models", <<>>))
     IN CASE entry = "none" -> pc' = "Selected" /\ selected_model' = Null
          [] entry = "raise" -> pc' = "Crashed" /\ UNCHANGED selected_model
          [] OTHER -> pc' = "Prompting" /\ UNCHANGED selected_model
  /\ UNCHANGED <<results, all_test_history, frame, sent, arrived, returned, calls,
                 requests, response, report>>

\* The user answers the prompt of select_model (lines 603-647).
AnswerPrompt(typed) ==
  /\ pc = "Prompting"
  /\ console_input' = [given |-> TRUE, text |-> typed]
  /\ LET out == PromptTurn(DictGet(StoreGet(results, "models_list"), "models", <<>>),
                           typed, TRUE)
     IN IF out = Reprompt
        THEN UNCHANGED <<pc, selected_model>>
        ELSE pc' = "Selected" /\ selected_model' = out
  /\ UNCHANGED <<results, all_test_history, test_count, frame, sent, arrived,
                 returned, calls, requests, response, report>>

\* selected_model == "__EXIT__": the final report and the end (lines 816-821).
ExitLoop ==
  /\ pc = "Selected"
  /\ selected_model = ExitSentinel
  /\ report' = IF Len(all_test_history) > 0
               THEN print_final_report(all_test_history)
               ELSE NoReport
  /\ pc' = "Done"
  /\ UNCHANGED <<results, all_test_history, test_count, selected_model, console_input,
                 frame, sent, arrived, returned, calls, requests, response>>

\* The default for no selection, and the start of test_single_model
\* (lines 823-828, 693-695).
BeginPass ==
  /\ pc = "Selected"
  /\ selected_model /= ExitSentinel
  /\ Len(all_test_history) < MaxPasses
  /\ LET model == IF Truthy(selected_model) THEN selected_model ELSE DefaultModel
     IN /\ selected_model' = model
        /\ results' = ResetStore(results, model)
  /\ console_input' = NoInput
  /\ pc' = "TestingChat"
  /\ UNCHANGED <<all_test_history, test_count, frame, sent, arrived, returned, calls,
                 requests, response, report>>

\* A mutant of TestChat: a failed chat probe ends the pass.
TestChat_AbortsOnFailure(resp) ==
  /\ pc = "TestingChat"
  /\ results' = StorePut(results, "chat_completion",
                         test_chat_completion(ChooseChatModel(results, selected_model), resp))
  /\ calls' = Count(calls, "chat_completion")
  /\ requests' = Count(requests, "chat_completion")
  /\ pc' = IF results'.chat_completion.success THEN "TestingStream" ELSE "SelectingModel"
  /\ response' = resp
  /\ UNCHANGED <<all_test_history, test_count, selected_model, console_input,
                 frame, sent, arrived, returned, report>>

\* self.test_chat_completion(model=model)  (line 698)
TestChat(resp) ==
  /\ pc = "TestingChat"
  /\ results' = StorePut(results, "chat_completion",
                         test_chat_completion(ChooseChatModel(results, selected_model), resp))
  /\ calls' = Count(calls, "chat_completion")
  /\ requests' = Count(requests, "chat_completion")
  /\ pc' = "TestingStream"
  /\ response' = resp
  /\ UNCHANGED <<all_test_history, test_count, selected_model, console_input,
                 frame, sent, arrived, returned, report>>

\* self.test_stream_mode(model=model)  (line 699)
TestStream(sr) ==
  /\ pc = "TestingStream"
  /\ LET model == ChooseChatModel(results, selected_model)
     IN /\ results' = StorePut(results, "stream_mode", test_stream_mode(model, sr))
        /\ requests' = IF StreamFollowsUp(model, sr)
                       THEN Count(Count(requests, "stream_mode"), "followup")
                       ELSE Count(requests, "stream_mode")
  /\ calls' = Count(calls, "stream_mode")
  /\ pc' = "TestingTools"
  /\ response' = sr.open
  /\ UNCHANGED <<all_test_history, test_count, selected_model, console_input,
                 frame, sent, arrived, returned, report>>

\* self.test_function_calling(model=model)  (line 700)
TestTools(resp) ==
  /\ pc = "TestingTools"
  /\ results' = StorePut(results, "function_calling",
                         test_function_calling(ChooseChatModel(results, selected_model), resp))
  /\ calls' = Count(calls, "function_calling")
  /\ requests' = Count(requests, "function_calling")
  /\ pc' = "Recording"
  /\ response' = resp
  /\ UNCHANGED <<all_test_history, test_count, selected_model, console_input,
                 frame, sent, arrived, returned, report>>

\* The summary, the history entry, and back to the top of the loop
\* (lines 703-714, 830).
RecordPass ==
  /\ pc = "Recording"
  /\ all_test_history' = Append(all_test_history, HistoryEntry(results, selected_model))
  /\ pc' = "SelectingModel"
  /\ UNCHANGED <<results, test_count, selected_model, console_input, frame, sent,
                 arrived, returned, calls, requests, response, report>>

Next ==
  \/ \E resp \in LoopModelsResponses : RunModelsProbe(resp)
  \/ EnterSelectModel
  \/ \E typed \in Typed : AnswerPrompt(typed)
  \/ ExitLoop
  \/ BeginPass
  \/ \E resp \in LoopChatResponses : TestChat(resp)
  \/ \E sr \in LoopStreamResponses : TestStream(sr)
  \/ \E resp \in LoopToolsResponses : TestTools(resp)
  \/ RecordPass

Spec == LoopInit /\ [][Next]_vars

\* ================================================ select_model, called
\* select_model at its prompt over a stored model list, as run_loop_mode
\* calls it (with the exit option, line 813) and as run_all_tests does
\* (without it, line 844).
SelectIds ==
  { <<Id_mistral, Id_gpt4, Id_chat_embed, Id_gpt4o>>,
    <<Id_gpt4o, Id_mistral, Id_gpt4>>,
    <<Id_mistral, Id_chat_embed>>,
    <<Id_mistral>>,
    <<Id_gpt4, Id_gpt4>>,
    <<Id_chat_embed, Id_gpt4, Id_chat_embed>>,
    <<Str(<<"4">>), Id_gpt4>> }
SelectTyped ==
  { <<>>, <<" ">>, <<"0">>, <<"1">>, <<"2">>, <<"4">>, <<"5">>, <<"-","1">>,
    <<"+","2">>, <<" ","3"," ">>, <<"g","p","t","-","4">>, <<"G","p","t","-","4">>,
    <<"G","P","T">>, <<"4","o">>, <<"T">>, <<"M","I","S">>, <<"e","m","b","e","d">>,
    <<"m","i","s","t","r","a","l">>, <<"z","z","z">> }

SelectInit ==
  /\ pc \in {"Prompting", "PromptingNoExit"}
  /\ \E ids \in SelectIds :
       results = StorePut(EmptyDict, "models_list",
                          [success |-> TRUE, models |-> ids, error |-> None])
  /\ all_test_history = <<>>
  /\ test_count = 0
  /\ selected_model = Null
  /\ console_input = NoInput
  /\ frame = NoFrame
  /\ sent = <<>>
  /\ arrived = [lines |-> 0, nonblank |-> 0]
  /\ returned = NothingReturned
  /\ calls = [p \in ProbeNames |-> IF p = "models_list" THEN 1 ELSE 0]
  /\ requests = [p \in ProbeNames \cup {"followup"} |-> IF p = "models_list" THEN 1 ELSE 0]
  /\ response = NoResponse
  /\ report = NoReport

\* The user answers the prompt of select_model() called without the exit
\* option (lines 603-647, show_exit_option = False).
AnswerPromptNoExit(typed) ==
  /\ pc = "PromptingNoExit"
  /\ console_input' = [given |-> TRUE, text |-> typed]
  /\ LET out == PromptTurn(DictGet(StoreGet(results, "models_list"), "models", <<>>),
                           typed, FALSE)
     IN IF out = Reprompt
        THEN UNCHANGED <<pc, selected_model>>
        ELSE pc' = "SelectedNoExit" /\ selected_model' = out
  /\ UNCHANGED <<results, all_test_history, test_count, frame, sent, arrived,
                 returned, calls, requests, response, report>>

SelectNext ==
  \/ \E typed \in SelectTyped : AnswerPrompt(typed)
  \/ \E typed \in SelectTyped : AnswerPromptNoExit(typed)

SpecSelect == SelectInit /\ [][SelectNext]_vars

\* ============================================== properties of the probes
\* A probe has returned a result record.
HasReturned == pc = "returned" \/ (pc = "idle" /\ returned.probe = "models_list")

\* The streaming probe has returned after reading the body to [DONE] or to
\* its end.
StreamCompleted ==
  pc = "returned" /\ returned.probe = "stream_mode" /\ frame.ctl \in {"break", "eof"}

\* The mean gap between the arrivals of the fragments sent exceeds 10 ms.
SentMeanGapExceeds ==
  sent[Len(sent)].at - sent[1].at > 10 * (Len(sent) - 1)

\* C1: in every result record a probe returns, success = TRUE never comes
\* with an error that is not None.
C1_SuccessExcludesError ==
  HasReturned => ~(returned.result.success /\ returned.result.error /= None)

\* C2: a probe called with an explicit model lets no exception escape, and
\* every record it returns with success = FALSE has an error that is not None.
C2_ProbeBoundary ==
  /\ pc = "escaped" => ~returned.explicit
  /\ (pc = "returned" /\ returned.explicit /\ ~returned.result.success)
       => returned.result.error /= None
C2_Witness ==
  /\ pc = "returned" /\ returned.explicit /\ returned.probe = "stream_mode"
  /\ frame.ctl = "abort" /\ Len(sent) > 0
  /\ ~returned.result.success /\ returned.result.error = ErrException("exc")

\* C3: for a stream read to completion with N fragments sent before [DONE]:
\* N = 1 gives poor, N = 2 good, N >= 3 excellent when the mean gap exceeds
\* 10 ms and good when it does not; success = TRUE in all four cases.
C3_QualityByCountAndGap ==
  (StreamCompleted /\ Len(sent) >= 1) =>
    /\ returned.result.success
    /\ returned.result.stream_quality =
         CASE Len(sent) = 1 -> "poor"
           [] Len(sent) = 2 -> "good"
           [] Len(sent) >= 3 /\ SentMeanGapExceeds -> "excellent"
           [] OTHER -> "good"
C3_Witness ==
  /\ StreamCompleted /\ Len(sent) = 3
  /\ sent[3].at - sent[1].at = 20
  /\ returned.result.stream_quality = "good"

\* C4 as claimed: a stream with no fragment that ends at [DONE] is reported
\* not_supported with success = FALSE, however many lines precede [DONE].
C4_EmptyDoneNotSupported ==
  (StreamCompleted /\ frame.has_done /\ Len(sent) = 0) =>
    /\ ~returned.result.success
    /\ returned.result.stream_quality = "not_supported"
\* C4 as amended: such a stream is reported with success = FALSE; the quality
\* is not_supported when at most one non-blank line precedes [DONE] and
\* unknown when two or more do.
C4_EmptyDoneByLineCount ==
  (StreamCompleted /\ frame.has_done /\ Len(sent) = 0) =>
    /\ ~returned.result.success
    /\ returned.result.stream_quality =
         IF arrived.nonblank - 1 <= 1 THEN "not_supported" ELSE "unknown"
C4_Witness ==
  /\ StreamCompleted /\ frame.has_done /\ Len(sent) = 0
  /\ arrived.nonblank = 3
  /\ returned.result.stream_quality = "unknown"

\* C5: when every fragment of a completed stream came on bare JSON lines, the
\* quality is non-standard.
C5_BareOnlyNonStandard ==
  (StreamCompleted /\ Len(sent) >= 1 /\ \A i \in 1..Len(sent) : sent[i].shape = "bare")
    => returned.result.stream_quality = "non-standard"

\* C6: a stream read to completion is reported with success = FALSE exactly
\* when no fragment was sent.
C6_FailsIffNoFragment ==
  StreamCompleted => (~returned.result.success <=> Len(sent) = 0)
C6_Witness ==
  /\ StreamCompleted /\ ~frame.has_done /\ Len(sent) = 0 /\ arrived.lines = 2
  /\ ~returned.result.success

\* ============================================= properties of a session
PassRecords == {"chat_completion", "stream_mode", "function_calling"}
InPass == pc \in {"TestingChat", "TestingStream", "TestingTools", "Recording"}
\* How many of the probes named have run in the pass under way.
RunInPass(after) == IF pc \in after THEN 1 ELSE 0

\* C7: every model selection of a session is made at the prompt, where the
\* input 0 is accepted as exit: select_model never returns without having
\* read an input.
C7_EverySelectionPrompts ==
  pc = "Selected" => console_input.given

\* C8: once the initial models probe has returned, success = FALSE means the
\* session is at Done with no prompt shown, no chat, streaming or tool-calling
\* probe or request made and an empty history; success = TRUE means the
\* session is in the selection loop.
C8_FailedListEndsSession ==
  pc /= "AwaitingModelList" =>
    /\ ~DictGet(results.models_list, "success", FALSE) =>
         /\ pc = "Done"
         /\ test_count = 0
         /\ ~console_input.given
         /\ all_test_history = <<>>
         /\ \A p \in PassRecords : calls[p] = 0 /\ requests[p] = 0
         /\ requests.followup = 0
    /\ DictGet(results.models_list, "success", FALSE) =>
         pc = "SelectingModel" \/ test_count >= 1
C8_Witness ==
  /\ pc = "Done" /\ calls.models_list = 1
  /\ ~results.models_list.success
  /\ results.models_list.error = ErrHttp(500)

\* C9: with n entries in the history, the chat, streaming and tool-calling
\* probes have each run n times plus once more for those already behind the
\* pass under way, which runs them in that order; the embeddings probe has
\* never run; the history grows only by one entry, at the end of a pass, and
\* the session then stands at model selection again.
C9_OnePassOneEntry ==
  /\ [](LET n == Len(all_test_history)
        IN /\ calls.chat_completion =
                n + RunInPass({"TestingStream", "TestingTools", "Recording"})
           /\ calls.stream_mode = n + RunInPass({"TestingTools", "Recording"})
           /\ calls.function_calling = n + RunInPass({"Recording"})
           /\ calls.embeddings = 0 /\ requests.embeddings = 0
           /\ pc = "SelectingModel" => test_count = n
           /\ (InPass \/ pc \in {"Prompting", "Selected"}) => test_count = n + 1)
  /\ [][/\ all_test_history' /= all_test_history =>
             /\ Len(all_test_history') = Len(all_test_history) + 1
             /\ SubSeq(all_test_history', 1, Len(all_test_history)) = all_test_history
             /\ pc = "Recording" /\ pc' = "SelectingModel"
        /\ pc = "TestingChat" => pc' = "TestingStream"
        /\ pc = "TestingStream" => pc' = "TestingTools"
        /\ pc = "TestingTools" => pc' = "Recording"
        /\ pc = "Recording" => Len(all_test_history') = Len(all_test_history) + 1]_vars
C9_Witness ==
  /\ pc = "SelectingModel" /\ Len(all_test_history) = 2
  /\ ~all_test_history[1].chat.success
  /\ ~all_test_history[1].stream.success
  /\ ~all_test_history[1].tools.success
  /\ all_test_history[2].chat.success

\* C10: a pass starts from a store holding only the models-list entry and the
\* tested model, and each probe of the pass adds its own record to it; the
\* history entry appended by the pass carries the chat, stream and tools
\* records of that store; the models-list entry never changes once the
\* initial probe has returned.
C10_StoreReplacedEachPass ==
  /\ [](InPass =>
          /\ DOMAIN results = {"models_list", "tested_model"} \cup
               CASE pc = "TestingChat" -> {}
                 [] pc = "TestingStream" -> {"chat_completion"}
                 [] pc = "TestingTools" -> {"chat_completion", "stream_mode"}
                 [] OTHER -> PassRecords
          /\ results.tested_model = selected_model)
  /\ [][/\ all_test_history' /= all_test_history =>
             LET entry == all_test_history'[Len(all_test_history')]
             IN /\ entry.model = results.tested_model
                /\ entry.chat = results.chat_completion
                /\ entry.stream = results.stream_mode
                /\ entry.tools = results.function_calling
        /\ pc /= "AwaitingModelList" =>
             StoreGet(results', "models_list") = StoreGet(results, "models_list")]_vars
C10_Witness ==
  /\ pc = "Recording" /\ Len(all_test_history) = 1
  /\ all_test_history[1].chat.success
  /\ all_test_history[1].stream.success
  /\ ~results.chat_completion.success
  /\ ~results.stream_mode.success
  /\ results.tested_model /= all_test_history[1].model

\* ======================================= further properties of the probes
\* The streaming probe has finished reading a 200 response to [DONE] or to
\* its end: it is about to make, or has made, its verdict.
StreamReadThrough ==
  returned.probe = "stream_mode" /\ pc \in {"followup", "returned"}
    /\ frame.ctl \in {"break", "eof"}

\* C11: every probe invoked has issued exactly one request of its own, and the
\* follow-up request has been issued once exactly when a streaming response
\* with status 200 was read through with no fragment sent, and never otherwise.
C11_OneRequestPerInvocation ==
  /\ \A p \in ProbeNames : requests[p] = calls[p]
  /\ requests.followup = IF StreamReadThrough /\ Len(sent) = 0 THEN 1 ELSE 0

\* The streaming probe found nothing but [DONE] within its first two lines.
SawOnlyDone == frame.has_done /\ arrived.nonblank <= 2

\* C12: the record the streaming probe returns after its follow-up request has
\* success = FALSE, no chunk received, and the quality and error that the
\* lines read alone determine, whichever of the four ways the follow-up went.
C12_VerdictIgnoresFollowUp ==
  (pc = "returned" /\ returned.probe = "stream_mode" /\ requests.followup = 1) =>
    /\ frame.non_stream \in {"content", "empty", "http", "raised"}
    /\ ~returned.result.success
    /\ returned.result.chunks_received = 0
    /\ returned.result.stream_quality =
         IF SawOnlyDone THEN "not_supported" ELSE "unknown"
    /\ returned.result.error =
         IF SawOnlyDone THEN ErrEmptyStream ELSE ErrNoStreamData
C12_Witness ==
  /\ pc = "returned" /\ returned.probe = "stream_mode" /\ requests.followup = 1
  /\ frame.non_stream = "content"
  /\ returned.result.stream_quality = "not_supported"

\* ============================================ properties of select_model
\* The list select_model was called on, the input it read last, stripped,
\* and what it did with it.
ListedModels == results.models_list.models
Choice == Strip(console_input.text)
AtPrompt == pc \in {"Prompting", "PromptingNoExit"}
HasSelected == pc \in {"Selected", "SelectedNoExit"}
ExitOffered == pc \in {"Prompting", "Selected"}
Selects(m) == HasSelected /\ selected_model = m
Reprompts == AtPrompt /\ selected_model = Null
\* The entries of which s is a case-insensitive substring.
Hits(s) ==
  {i \in 1..Len(ListedModels) : Contains(Lower(s), Lower(ListedModels[i].v))}

\* C13: after an input at the prompt over a non-empty list: empty input has
\* selected the first chat-like id if there is one, else the first id of
\* chat-like ++ embedding-like ++ other; an integer i in 1..len has selected
\* the i-th id of that list; 0 has exited where exit is offered; any other
\* integer has re-prompted; a non-integer equal to an id has selected it;
\* otherwise a substring of exactly one entry has selected that entry, and
\* one of several or of none has re-prompted.
C13_PromptSelection ==
  console_input.given =>
    LET chat == OfClass(ListedModels, "chat")
        ordered == chat \o OfClass(ListedModels, "embed") \o OfClass(ListedModels, "other")
        n == ParseInt(Choice)
    IN CASE Len(Choice) = 0 ->
              Selects(IF Len(chat) > 0 THEN chat[1] ELSE ordered[1])
         [] Len(Choice) > 0 /\ ~IsRaise(n) ->
              IF n.v \in 1..Len(ordered) THEN Selects(ordered[n.v])
              ELSE IF n.v = 0 /\ ExitOffered THEN Selects(ExitSentinel)
              ELSE Reprompts
         [] OTHER ->
              IF \E i \in 1..Len(ListedModels) : ListedModels[i].v = Choice
              THEN Selects(Str(Choice))
              ELSE IF Cardinality(Hits(Choice)) = 1
              THEN Selects(ListedModels[CHOOSE i \in Hits(Choice) : TRUE])
              ELSE Reprompts
\* The input gpt-4 has selected gpt-4 from a list that also holds GPT-4o.
C13_Witness ==
  /\ console_input.given /\ Choice = Id_gpt4.v
  /\ Cardinality(Hits(Choice)) = 2
  /\ \E i \in 1..Len(ListedModels) : ListedModels[i] = Id_gpt4o
  /\ Selects(Id_gpt4)

\* ================================= properties of the request-reply probes
\* The probe named has returned a record for a response with status 200.
Returned200(probe) ==
  pc = "returned" /\ returned.probe = probe
    /\ response.kind = "http" /\ response.status = 200
\* The fields of a JSON value when it is an object, none otherwise.
Fields(x) == IF x.t = "obj" THEN DOMAIN x.v ELSE {}
\* choices[0].message of the body answered, Null when the body has none.
BodyMessage ==
  LET body == response.body
  IN IF "choices" \in Fields(body) /\ body.v.choices.t = "arr"
        /\ Len(body.v.choices.v) > 0
        /\ "message" \in Fields(body.v.choices.v[1])
     THEN body.v.choices.v[1].v.message
     ELSE Null
\* The message has a tool_calls array that is not empty.
HasToolCalls ==
  "tool_calls" \in Fields(BodyMessage) /\ BodyMessage.v.tool_calls.t = "arr"
    /\ Len(BodyMessage.v.tool_calls.v) > 0
\* The message has no tool_calls, or an empty or null one.
NoToolCalls ==
  "tool_calls" \in Fields(BodyMessage) => ~Truthy(BodyMessage.v.tool_calls)
\* The message has a content that is not empty.
HasContent ==
  "content" \in Fields(BodyMessage) /\ Truthy(BodyMessage.v.content)

\* C14: on a 200 response the tool-calling probe returns success and
\* tool_called both TRUE for a non-empty tool_calls array, with the name and
\* arguments of the first call when it has them, whether or not there is
\* content; success TRUE and tool_called FALSE for content without tool
\* calls; success FALSE for neither.  In every record it returns, tool_called
\* implies success.
C14_ToolCallOutcomes ==
  (pc = "returned" /\ returned.probe = "function_calling") =>
    LET r == returned.result
    IN /\ r.tool_called => r.success
       /\ (Returned200("function_calling") /\ HasToolCalls) =>
            /\ r.success /\ r.tool_called
            /\ LET call == BodyMessage.v.tool_calls.v[1]
               IN ("function" \in Fields(call)
                     /\ {"name", "arguments"} \subseteq Fields(call.v.function)) =>
                    /\ r.tool_name = call.v.function.v.name
                    /\ r.tool_arguments = call.v.function.v.arguments
       /\ (Returned200("function_calling") /\ NoToolCalls /\ HasContent) =>
            r.success /\ ~r.tool_called
       /\ (Returned200("function_calling") /\ NoToolCalls /\ ~HasContent) =>
            ~r.success /\ ~r.tool_called
C14_Witness ==
  /\ Returned200("function_calling") /\ HasToolCalls /\ HasContent
  /\ returned.result.success /\ returned.result.tool_called
  /\ returned.result.tool_name = ToolCall.v.function.v.name

\* ======================================== properties of the final report
\* How many history entries have the field TRUE in the record of the part.
Entries(part, field) ==
  Cardinality({i \in 1..Len(all_test_history) : all_test_history[i][part][field]})

\* C15 as claimed: in the final report the chat, streaming and tool-calling
\* counts are each the number of history entries whose record of that probe
\* has success = TRUE, and the total is the number of passes made.
C15_CountsBySuccess ==
  report.printed =>
    /\ report.total = Len(all_test_history)
    /\ report.chat_pass = Entries("chat", "success")
    /\ report.stream_pass = Entries("stream", "success")
    /\ report.tools_pass = Entries("tools", "success")
\* C15 as amended: the chat and streaming counts go by success = TRUE, the
\* tool-calling count by tool_called = TRUE, which leaves out the entries
\* where the probe succeeded on a plain reply; the total is the number of
\* passes made.
C15_ToolsCountByToolCalled ==
  report.printed =>
    /\ report.total = Len(all_test_history)
    /\ report.chat_pass = Entries("chat", "success")
    /\ report.stream_pass = Entries("stream", "success")
    /\ report.tools_pass = Entries("tools", "tool_called")
C15_Witness ==
  /\ report.printed /\ report.total = 2
  /\ Entries("tools", "success") = 2
  /\ report.tools_pass = 1
  /\ report.chat_pass = 1 /\ report.stream_pass = 1

\* C16: the chat probe returns success = TRUE exactly when the response has
\* status 200 and its body has the field choices[0].message.content.
C16_SuccessIffContentPresent ==
  (pc = "returned" /\ returned.probe = "chat_completion") =>
    (returned.result.success <=>
       (Returned200("chat_completion") /\ "content" \in Fields(BodyMessage)))

\* An id is embedding-like when it contains embed; chat-like when it does not
\* and contains one of the chat keywords; other when it contains neither.
EmbeddingLike(m) == Contains(Chars_embed, Lower(m.v))
ChatLike(m) ==
  ~EmbeddingLike(m) /\ \E x \in ChatKeywords : Contains(x, Lower(m.v))
OtherLike(m) == ~EmbeddingLike(m) /\ ~ChatLike(m)
\* How many times m occurs in the list s.
Occurrences(m, s) == Cardinality({i \in 1..Len(s) : s[i] = m})

\* C17: the three classes select_model shows are the chat-like, the
\* embedding-like and the other entries of the list, each in list order; an
\* id with embed in it is embedding-like whatever else it contains; and
\* chat-like ++ embedding-like ++ other has the length of the list and holds
\* every id as often as the list does.
C17_ClassesPartition ==
  LET chat == OfClass(ListedModels, "chat")
      embed == OfClass(ListedModels, "embed")
      other == OfClass(ListedModels, "other")
  IN /\ chat = SelectSeq(ListedModels, ChatLike)
     /\ embed = SelectSeq(ListedModels, EmbeddingLike)
     /\ other = SelectSeq(ListedModels, OtherLike)
     /\ Len(chat \o embed \o other) = Len(ListedModels)
     /\ AllModelsOrdered(ListedModels) = chat \o embed \o other
     /\ \A i \in 1..Len(ListedModels) :
          /\ Occurrences(ListedModels[i], chat \o embed \o other)
               = Occurrences(ListedModels[i], ListedModels)
          /\ Occurrences(ListedModels[i], chat) > 0
               => Occurrences(ListedModels[i], embed \o other) = 0
          /\ Occurrences(ListedModels[i], embed) > 0
               => Occurrences(ListedModels[i], chat \o other) = 0
\* The third entry shown has been selected from a list whose entries fall in
\* all three classes: it is chat-embed, after the two chat-like ids.
C17_Witness ==
  /\ console_input.given /\ Choice = <<"3">>
  /\ Len(ListedModels) = 4
  /\ Selects(Id_chat_embed)
  /\ OfClass(ListedModels, "chat") = <<Id_gpt4, Id_gpt4o>>
  /\ OfClass(ListedModels, "other") = <<Id_mistral>>

\* ===================================== properties of the streaming verdict
\* C18: a record of the streaming probe has is_real_stream = TRUE only for the
\* quality excellent, with at least 3 fragments whose mean gap exceeds 10 ms;
\* with the quality good, poor, not_supported or unknown it is FALSE.
C18_RealStreamOnlyExcellent ==
  (pc = "returned" /\ returned.probe = "stream_mode") =>
    LET r == returned.result
    IN /\ r.is_real_stream =>
            /\ r.stream_quality = "excellent"
            /\ Len(sent) >= MinChunksExcellent /\ SentMeanGapExceeds
       /\ r.stream_quality \in {"good", "poor", "not_supported", "unknown"}
            => ~r.is_real_stream

\* The streaming probe has returned on a 200 response that the transport
\* delivered whole as far as the probe read it, and no line of it held a
\* content that is not text.
StreamDelivered ==
  pc = "returned" /\ returned.probe = "stream_mode"
    /\ response.kind = "http" /\ response.status = 200
    /\ frame.ctl \in {"break", "eof", "raise"} /\ frame.exc /= "TypeError"

\* C19: whatever lines without a fragment a delivered stream holds (malformed
\* JSON, JSON with an empty choices array, a payload that is not an object,
\* event: lines, unrecognized lines), the record counts every fragment sent
\* and has success = TRUE exactly when there was one.
C19_FragmentlessLinesIgnored ==
  StreamDelivered =>
    /\ returned.result.chunks_received = Len(sent)
    /\ returned.result.success <=> Len(sent) > 0

\* C20: when the transport fails while the streaming probe reads the lines,
\* the record returned has success = FALSE, an error, no chunk received, an
\* empty full_response and the quality unknown, however many fragments had
\* arrived, and no follow-up request has been made.
C20_ReadFailureDiscardsFragments ==
  (pc = "returned" /\ returned.probe = "stream_mode" /\ frame.ctl = "abort") =>
    /\ ~returned.result.success
    /\ returned.result.error /= None
    /\ returned.result.chunks_received = 0
    /\ returned.result.full_response = <<>>
    /\ returned.result.stream_quality = "unknown"
    /\ ~returned.result.is_real_stream
    /\ requests.followup = 0
C20_Witness ==
  /\ pc = "returned" /\ returned.probe = "stream_mode" /\ frame.ctl = "abort"
  /\ Len(sent) = 2 /\ frame.chunk_count = 2
  /\ returned.result.error = ErrTimeout
  /\ returned.result.chunks_received = 0

====
